---- MODULE Spec2Model ----
(***************************************************************************)
(* Kademlia-style DHT of wave-capacitor: NodeID distance, k-buckets, the   *)
(* routing table and the iterative FIND_NODE lookup (dht/node.go,          *)
(* dht/routing.go, dht/discovery.go).                                      *)
(*                                                                         *)
(* A NodeID is the Go array [20]byte, modelled as a tuple of 20 bytes:      *)
(* Go's id[i], i in 0..19, is id[i + 1] here.                              *)
(* A k-bucket is modelled by its contact list (front = least recently      *)
(* seen); its lastSeen stamp and informational min/max range are written   *)
(* by AddContact but read by nothing, and are left out.                    *)
(***************************************************************************)
EXTENDS Naturals, Integers, Sequences, FiniteSets, TLC

VARIABLES
    routingTable,   \* dht.routingTable: [localID, buckets]
    ret,            \* what the last direct call returned (record with field op)
    pc,             \* position of the goroutine running bootstrap / FindNode
    bootstrapLeft,  \* config.BootstrapNodes still to be pinged by bootstrap
    targetID,       \* FindNode: targetID
    contacted,      \* FindNode: contacted (set of addresses mapped to true)
    closestSoFar,   \* FindNode: closestSoFar (pending candidates)
    activeQueries,  \* FindNode: activeQueries
    workers,        \* FindNode: goroutines inside findNodeRPC (their contacts)
    resultChan,     \* FindNode: resultChan (buffered, capacity Alpha)
    err,            \* what FindNode / bootstrap returned
    sent,           \* history: contacts a FIND_NODE RPC was dispatched to
    queued,         \* history: contacts appended to closestSoFar
    services,       \* dht.services: ServiceInfo by service ID
    loop,           \* position of each background goroutine
    tickReady,      \* whether a tick waits in the ticker channel of each loop
    shutdown,       \* whether dht.shutdown is closed
    stop,           \* position of the caller of Stop
    rtHeld,         \* holders of RoutingTable.mutex: [proc, mode]
    kbHeld,         \* holders of the KBucket mutexes: [bucket, proc, mode]
    proc            \* concurrent callers of the routing table: pc and locals

vars == <<routingTable, ret, pc, bootstrapLeft, targetID, contacted,
          closestSoFar, activeQueries, workers, resultChan, err, sent, queued,
          services, loop, tickReady, shutdown, stop, rtHeld, kbHeld, proc>>

\* the background loops, Stop, and the concurrent callers of the table
bgVars == <<loop, tickReady, shutdown, stop, rtHeld, kbHeld, proc>>

\* what a direct call of the routing table leaves alone
lookupVars == <<pc, bootstrapLeft, targetID, contacted, closestSoFar,
                activeQueries, workers, resultChan, err, sent, queued, services, bgVars>>

(***************************************************************************)
(* Program constants.                                                      *)
(***************************************************************************)
K == 20
Alpha == 3
IDLen == 20
NumBuckets == 160

(***************************************************************************)
(* Bounds of the model.                                                    *)
(***************************************************************************)
\* direct calls of GetClosestContacts ask for 0..MaxCount contacts, or for K
MaxCount == 3
\* longest contact list a peer's FIND_NODE response carries
MaxResp == 2

(***************************************************************************)
(* NodeID (dht/node.go).                                                   *)
(***************************************************************************)
Byte == 0..255
IDIndex == 0..(IDLen - 1)

\* 1 << n for n in 0..8
Pow2(n) == <<1, 2, 4, 8, 16, 32, 64, 128, 256>>[n + 1]

\* Go's x >> n on a byte
ShiftRight(x, n) == x \div Pow2(n)

\* the truth table of ^ on 4-bit values: Xor4[a + 1][b + 1] = a ^ b
Xor4 ==
    <<
       << 0,  1,  2,  3,  4,  5,  6,  7,  8,  9, 10, 11, 12, 13, 14, 15>>,
       << 1,  0,  3,  2,  5,  4,  7,  6,  9,  8, 11, 10, 13, 12, 15, 14>>,
       << 2,  3,  0,  1,  6,  7,  4,  5, 10, 11,  8,  9, 14, 15, 12, 13>>,
       << 3,  2,  1,  0,  7,  6,  5,  4, 11, 10,  9,  8, 15, 14, 13, 12>>,
       << 4,  5,  6,  7,  0,  1,  2,  3, 12, 13, 14, 15,  8,  9, 10, 11>>,
       << 5,  4,  7,  6,  1,  0,  3,  2, 13, 12, 15, 14,  9,  8, 11, 10>>,
       << 6,  7,  4,  5,  2,  3,  0,  1, 14, 15, 12, 13, 10, 11,  8,  9>>,
       << 7,  6,  5,  4,  3,  2,  1,  0, 15, 14, 13, 12, 11, 10,  9,  8>>,
       << 8,  9, 10, 11, 12, 13, 14, 15,  0,  1,  2,  3,  4,  5,  6,  7>>,
       << 9,  8, 11, 10, 13, 12, 15, 14,  1,  0,  3,  2,  5,  4,  7,  6>>,
       <<10, 11,  8,  9, 14, 15, 12, 13,  2,  3,  0,  1,  6,  7,  4,  5>>,
       <<11, 10,  9,  8, 15, 14, 13, 12,  3,  2,  1,  0,  7,  6,  5,  4>>,
       <<12, 13, 14, 15,  8,  9, 10, 11,  4,  5,  6,  7,  0,  1,  2,  3>>,
       <<13, 12, 15, 14,  9,  8, 11, 10,  5,  4,  7,  6,  1,  0,  3,  2>>,
       <<14, 15, 12, 13, 10, 11,  8,  9,  6,  7,  4,  5,  2,  3,  0,  1>>,
       <<15, 14, 13, 12, 11, 10,  9,  8,  7,  6,  5,  4,  3,  2,  1,  0>>
    >>

\* byte addition in place of XOR
XorByteAdd(x, y) == (x + y) % 256

\* Go's x ^ y on bytes: the high and the low half-byte
XorByte(x, y) ==
    16 * Xor4[(x \div 16) + 1][(y \div 16) + 1] + Xor4[(x % 16) + 1][(y % 16) + 1]

ZeroID == <<0, 0, 0, 0, 0, 0, 0, 0, 0, 0, 0, 0, 0, 0, 0, 0, 0, 0, 0, 0>>

\* NodeID.Distance: distance[i] = n[i] ^ other[i] for each of the 20 bytes
Distance(n, other) ==
    << XorByte(n[1], other[1]),   XorByte(n[2], other[2]),
       XorByte(n[3], other[3]),   XorByte(n[4], other[4]),
       XorByte(n[5], other[5]),   XorByte(n[6], other[6]),
       XorByte(n[7], other[7]),   XorByte(n[8], other[8]),
       XorByte(n[9], other[9]),   XorByte(n[10], other[10]),
       XorByte(n[11], other[11]), XorByte(n[12], other[12]),
       XorByte(n[13], other[13]), XorByte(n[14], other[14]),
       XorByte(n[15], other[15]), XorByte(n[16], other[16]),
       XorByte(n[17], other[17]), XorByte(n[18], other[18]),
       XorByte(n[19], other[19]), XorByte(n[20], other[20]) >>

\* lessThan: the loop over i, returning at the first differing byte
RECURSIVE lessThanFrom(_, _, _)
lessThanFrom(a, b, i) ==
    IF i >= IDLen THEN FALSE
    ELSE IF a[i + 1] < b[i + 1] THEN TRUE
    ELSE IF a[i + 1] > b[i + 1] THEN FALSE
    ELSE lessThanFrom(a, b, i + 1)

lessThan(a, b) == lessThanFrom(a, b, 0)

\* Contact.Equal: by NodeID only
ContactEqual(c, other) == c.ID = other.ID

(***************************************************************************)
(* KBucket (dht/routing.go).                                               *)
(***************************************************************************)
NewKBucket == << >>

Range(s) == { s[i] : i \in 1..Len(s) }

RemoveAt(s, i) == SubSeq(s, 1, i - 1) \o SubSeq(s, i + 1, Len(s))

\* off-by-one capacity test (<= K instead of < K)
KBucketAddContactLeq(kb, contact) ==
    IF \E i \in 1..Len(kb) : ContactEqual(kb[i], contact)
    THEN LET i == CHOOSE i \in 1..Len(kb) : ContactEqual(kb[i], contact)
         IN  [contacts |-> Append(RemoveAt(kb, i), contact), ok |-> TRUE]
    ELSE IF Len(kb) <= K
         THEN [contacts |-> Append(kb, contact), ok |-> TRUE]
         ELSE [contacts |-> kb, ok |-> FALSE]

\* AddContact that updates a held contact where it stands
KBucketAddContactInPlace(kb, contact) ==
    IF \E i \in 1..Len(kb) : ContactEqual(kb[i], contact)
    THEN LET i == CHOOSE i \in 1..Len(kb) : ContactEqual(kb[i], contact)
         IN  [contacts |-> [kb EXCEPT ![i] = contact], ok |-> TRUE]
    ELSE IF Len(kb) < K
         THEN [contacts |-> Append(kb, contact), ok |-> TRUE]
         ELSE [contacts |-> kb, ok |-> FALSE]

\* AddContact that evicts the least recently seen contact of a full bucket
KBucketAddContactEvict(kb, contact) ==
    IF \E i \in 1..Len(kb) : ContactEqual(kb[i], contact)
    THEN LET i == CHOOSE i \in 1..Len(kb) : ContactEqual(kb[i], contact)
         IN  [contacts |-> Append(RemoveAt(kb, i), contact), ok |-> TRUE]
    ELSE IF Len(kb) < K
         THEN [contacts |-> Append(kb, contact), ok |-> TRUE]
         ELSE [contacts |-> Append(Tail(kb), contact), ok |-> TRUE]

\* AddContact that overwrites the most recently seen contact of a full bucket
KBucketAddContactRecycle(kb, contact) ==
    IF \E i \in 1..Len(kb) : ContactEqual(kb[i], contact)
    THEN LET i == CHOOSE i \in 1..Len(kb) : ContactEqual(kb[i], contact)
         IN  [contacts |-> Append(RemoveAt(kb, i), contact), ok |-> TRUE]
    ELSE IF Len(kb) < K
         THEN [contacts |-> Append(kb, contact), ok |-> TRUE]
         ELSE [contacts |-> [kb EXCEPT ![Len(kb)] = contact], ok |-> TRUE]

\* KBucket.AddContact: the new list and the returned bool
KBucketAddContact(kb, contact) ==
    IF \E i \in 1..Len(kb) : ContactEqual(kb[i], contact)
    THEN \* MoveToBack(e); e.Value = contact
         LET i == CHOOSE i \in 1..Len(kb) : ContactEqual(kb[i], contact)
         IN  [contacts |-> Append(RemoveAt(kb, i), contact), ok |-> TRUE]
    ELSE IF Len(kb) < K
         THEN [contacts |-> Append(kb, contact), ok |-> TRUE]
         ELSE [contacts |-> kb, ok |-> FALSE]

Min(a, b) == IF a < b THEN a ELSE b

\* KBucket.GetContacts: the first min(count, Len) contacts from the front
KBucketGetContacts(kb, count) == SubSeq(kb, 1, Min(count, Len(kb)))

KBucketSize(kb) == Len(kb)

(***************************************************************************)
(* RoutingTable (dht/routing.go).                                          *)
(***************************************************************************)
\* the least element of a non-empty set of naturals
MinOf(S) == CHOOSE x \in S : \A y \in S : x <= y

NewRoutingTable(localID) ==
    [localID |-> localID, buckets |-> [i \in 0..(NumBuckets - 1) |-> NewKBucket]]

\* bit test with the shift reversed (j instead of 7 - j)
RECURSIVE firstSetBitLSB(_, _)
firstSetBitLSB(distance, i) ==
    IF i >= IDLen THEN 159
    ELSE LET hits == { j \in 0..7 : (ShiftRight(distance[i + 1], j) % 2) # 0 }
         IN  IF hits # {} THEN i * 8 + MinOf(hits)
             ELSE firstSetBitLSB(distance, i + 1)

getBucketIndexLSB(rt, id) == firstSetBitLSB(Distance(rt.localID, id), 0)

\* the loops of getBucketIndex from byte i on: the inner loop returns
\* i*8 + j at the first j whose bit (distance[i] >> (7-j)) & 1 is set; when
\* the bytes are exhausted the result is 159
RECURSIVE firstSetBit(_, _)
firstSetBit(distance, i) ==
    IF i >= IDLen THEN 159
    ELSE LET hits == { j \in 0..7 : (ShiftRight(distance[i + 1], 7 - j) % 2) # 0 }
         IN  IF hits # {} THEN i * 8 + MinOf(hits)
             ELSE firstSetBit(distance, i + 1)

\* RoutingTable.getBucketIndex
getBucketIndex(rt, id) == firstSetBit(Distance(rt.localID, id), 0)

\* flips bit bitIndex counted from the least significant end
GetRandomIDFromBucketLSB(rt, bucketIndex) ==
    LET byteIndex == bucketIndex \div 8
        bitIndex  == bucketIndex % 8
    IN  [rt.localID EXCEPT ![byteIndex + 1] = XorByte(@, Pow2(bitIndex))]

\* RoutingTable.GetRandomIDFromBucket
GetRandomIDFromBucket(rt, bucketIndex) ==
    LET byteIndex == bucketIndex \div 8
        bitIndex  == bucketIndex % 8
    IN  [rt.localID EXCEPT ![byteIndex + 1] = XorByte(@, Pow2(7 - bitIndex))]

\* RoutingTable.AddContact: the new table and what the bucket returned
\* (the table's method discards the bool)
RoutingTableAddContact(rt, contact) ==
    LET bucketIndex == getBucketIndex(rt, contact.ID)
        r == KBucketAddContact(rt.buckets[bucketIndex], contact)
    IN  [rt |-> [rt EXCEPT !.buckets[bucketIndex] = r.contacts], ok |-> r.ok]

\* RoutingTable.Size: the sum of bucket.Size() over buckets lo..hi (the range
\* loop; halved only to keep the evaluation shallow)
RECURSIVE SumSizes(_, _, _)
SumSizes(rt, lo, hi) ==
    IF lo > hi THEN 0
    ELSE IF lo = hi THEN KBucketSize(rt.buckets[lo])
    ELSE LET mid == (lo + hi) \div 2
         IN  SumSizes(rt, lo, mid) + SumSizes(rt, mid + 1, hi)

RoutingTableSize(rt) == SumSizes(rt, 0, NumBuckets - 1)

\* a neighbour loop that stops as soon as one side runs out of buckets
neighbourStepBothSides(rt, bucketIndex, count, i, contacts) ==
    IF Len(contacts) < count /\ (bucketIndex - i >= 0 /\ bucketIndex + i < NumBuckets)
    THEN LET left == contacts \o KBucketGetContacts(rt.buckets[bucketIndex - i],
                                                    count - Len(contacts))
         IN  IF Len(left) < count
             THEN left \o KBucketGetContacts(rt.buckets[bucketIndex + i],
                                             count - Len(left))
             ELSE left
    ELSE contacts

\* one iteration of the neighbour loop of GetClosestContacts; the loop
\* condition fails for good once count is reached or both indices are out
\* of range, so an iteration past that point changes nothing
neighbourStep(rt, bucketIndex, count, i, contacts) ==
    IF Len(contacts) < count /\ (bucketIndex - i >= 0 \/ bucketIndex + i < NumBuckets)
    THEN LET left ==
                 IF bucketIndex - i >= 0
                 THEN contacts \o KBucketGetContacts(rt.buckets[bucketIndex - i],
                                                     count - Len(contacts))
                 ELSE contacts
         IN  IF bucketIndex + i < NumBuckets /\ Len(left) < count
             THEN left \o KBucketGetContacts(rt.buckets[bucketIndex + i],
                                             count - Len(left))
             ELSE left
    ELSE contacts

\* iterations i = lo..hi of the neighbour loop, in order (halved only to
\* keep the evaluation shallow)
RECURSIVE collectNeighbours(_, _, _, _, _, _)
collectNeighbours(rt, bucketIndex, count, lo, hi, contacts) ==
    IF lo > hi THEN contacts
    ELSE IF lo = hi THEN neighbourStep(rt, bucketIndex, count, lo, contacts)
    ELSE LET mid  == (lo + hi) \div 2
             half == collectNeighbours(rt, bucketIndex, count, lo, mid, contacts)
         IN  IF Len(half) >= count THEN half  \* loop condition failed: exit
             ELSE collectNeighbours(rt, bucketIndex, count, mid + 1, hi, half)

\* the distances the comparator of sort.Slice computes, one per contact
RECURSIVE DistancesTo(_, _)
DistancesTo(s, target) ==
    IF s = << >> THEN << >>
    ELSE <<Distance(Head(s).ID, target)>> \o DistancesTo(Tail(s), target)

\* the possible orders of s sorted by lessThan on its distances d
RECURSIVE SortKeyed(_, _)
SortKeyed(d, s) ==
    IF s = << >> THEN { << >> }
    ELSE LET mins == { i \in 1..Len(s) : \A j \in 1..Len(s) : ~lessThan(d[j], d[i]) }
         IN  UNION { { <<s[i]>> \o r : r \in SortKeyed(RemoveAt(d, i), RemoveAt(s, i)) }
                     : i \in mins }

\* sort.Slice by lessThan on the distance to target. sort.Slice is not
\* stable: every order of contacts at equal distance is a possible outcome.
SortByDistance(s, target) == SortKeyed(DistancesTo(s, target), s)

Truncate(s, count) == IF Len(s) > count THEN SubSeq(s, 1, count) ELSE s

\* the pool truncated without the sort
GetClosestContactsNoSort(rt, target, count) ==
    LET bucketIndex == getBucketIndex(rt, target)
        first == KBucketGetContacts(rt.buckets[bucketIndex], count)
        pool  == collectNeighbours(rt, bucketIndex, count, 1, NumBuckets - 1, first)
    IN  { Truncate(pool, count) }

\* RoutingTable.GetClosestContacts: the set of possible return values
GetClosestContacts(rt, target, count) ==
    LET bucketIndex == getBucketIndex(rt, target)
        first == KBucketGetContacts(rt.buckets[bucketIndex], count)
        pool  == collectNeighbours(rt, bucketIndex, count, 1, NumBuckets - 1, first)
    IN  { Truncate(s, count) : s \in SortByDistance(pool, target) }

(***************************************************************************)
(* Inputs: NodeIDs and contacts the operations are called with.  An ID is  *)
(* named by its XOR mask against the local ID.                             *)
(***************************************************************************)
MkContact(id, addr, seen) == [ID |-> id, Address |-> addr, LastSeen |-> seen]

\* the ID with the given byte at each Go index 0..19
RECURSIVE BytesFrom(_, _)
BytesFrom(f, i) == IF i >= IDLen THEN << >> ELSE <<f[i]>> \o BytesFrom(f, i + 1)

MkID(f) == BytesFrom(f, 0)

\* the mask with byte 0 = hi, byte 19 = lo and zero bytes between
Mask(hi, lo) ==
    MkID([i \in IDIndex |-> IF i = 0 THEN hi ELSE IF i = IDLen - 1 THEN lo ELSE 0])

\* the mask with the single bit p (counted from the most significant bit)
OneBit(p) == MkID([i \in IDIndex |-> IF i = p \div 8 THEN Pow2(7 - (p % 8)) ELSE 0])

\* the mask with bit p and every less significant bit set
TailFrom(p) ==
    MkID([i \in IDIndex |-> IF i < p \div 8 THEN 0
                            ELSE IF i = p \div 8 THEN Pow2(8 - (p % 8)) - 1
                            ELSE 255])

\* the mask with bit p and the last bit set
WithLast(p) == [OneBit(p) EXCEPT ![IDLen] = IF p = 159 THEN 1 ELSE @ + 1]

LocalA == MkID([i \in IDIndex |-> IF i % 2 = 0 THEN 165 ELSE 60])
LocalB == MkID([i \in IDIndex |-> 255])

FnLocalIDs == {ZeroID, LocalA, LocalB}

FnMasks == UNION { {OneBit(p), TailFrom(p), WithLast(p)} : p \in 0..(NumBuckets - 1) }

\* the IDs getBucketIndex is applied to: the local ID and the local ID
\* XOR each mask
FnIDs(L) == {L} \cup { Distance(L, m) : m \in FnMasks }

(***************************************************************************)
(* SpecFn: the pure functions of the routing table applied to inputs.      *)
(***************************************************************************)
NoRet == [op |-> "none"]

\* make(map[string]ServiceInfo)
EmptyServices == [id \in {} |-> id]

\* the three goroutines Start launches
Loops == {"refreshRoutingTable", "republishServices", "expireContacts"}

\* the goroutines that call the routing table concurrently: two run
\* AddContact, one runs Size
Writers == {"w1", "w2"}
Readers == {"r1"}
Procs == Writers \cup Readers

\* a caller between calls: the contact and result of its last call
ProcIdle == [pc |-> "idle", contact |-> MkContact(ZeroID, "", 0), ok |-> FALSE, size |-> 0]

\* no caller holds or waits for a mutex
NoCallers ==
    /\ rtHeld = {}
    /\ kbHeld = {}
    /\ proc = [p \in Procs |-> ProcIdle]

\* no background goroutine is running and Stop has not been called
BgOff ==
    /\ loop = [l \in Loops |-> "off"]
    /\ tickReady = [l \in Loops |-> FALSE]
    /\ shutdown = FALSE
    /\ stop = "none"
    /\ NoCallers

LookupIdle ==
    /\ pc = "off"
    /\ bootstrapLeft = << >>
    /\ targetID = ZeroID
    /\ contacted = {}
    /\ closestSoFar = << >>
    /\ activeQueries = 0
    /\ workers = {}
    /\ resultChan = << >>
    /\ err = "none"
    /\ sent = {}
    /\ queued = {}
    /\ services = EmptyServices
    /\ BgOff

InitFn ==
    /\ \E L \in FnLocalIDs : routingTable = NewRoutingTable(L)
    /\ ret = NoRet
    /\ LookupIdle

\* each function is applied once per run: its result depends on the local
\* ID and the argument only
CallGetBucketIndex(id) ==
    /\ ret' = [op |-> "getBucketIndex", id |-> id,
               result |-> getBucketIndex(routingTable, id)]
    /\ UNCHANGED <<routingTable, lookupVars>>

CallGetRandomIDFromBucket(bucketIndex) ==
    /\ ret' = [op |-> "GetRandomIDFromBucket", index |-> bucketIndex,
               result |-> GetRandomIDFromBucket(routingTable, bucketIndex)]
    /\ UNCHANGED <<routingTable, lookupVars>>

\* the IDs Distance is applied to
DistIDs ==
    { ZeroID, LocalA, LocalB, Mask(128, 0), Mask(0, 1), Mask(255, 255), Mask(127, 255),
      TailFrom(77) }

\* a.Distance(b), b.Distance(a), b.Distance(c), a.Distance(c), a.Distance(a)
CallDistance(a, b, c) ==
    /\ ret' = [op |-> "Distance", a |-> a, b |-> b, c |-> c,
               ab |-> Distance(a, b), ba |-> Distance(b, a), bc |-> Distance(b, c),
               ac |-> Distance(a, c), aa |-> Distance(a, a)]
    /\ UNCHANGED <<routingTable, lookupVars>>

NextFn ==
    \/ ret.op = "none" /\ \E id \in FnIDs(routingTable.localID) : CallGetBucketIndex(id)
    \/ ret.op = "none" /\ \E i \in 0..(NumBuckets - 1) : CallGetRandomIDFromBucket(i)
    \/ ret.op = "none" /\ \E a \in DistIDs, b \in DistIDs, c \in DistIDs : CallDistance(a, b, c)

SpecFn == InitFn /\ [][NextFn]_vars

(***************************************************************************)
(* SpecRT: a routing table driven by direct calls of AddContact,           *)
(* GetClosestContacts and Size.                                            *)
(***************************************************************************)
RTLocalID == LocalA

\* the ID at XOR mask m from the local ID of this table
IDAt(m) == Distance(RTLocalID, m)

\* K - 1 contacts of bucket 0, told apart by their second byte
FillMask(n) == [Mask(128, 0) EXCEPT ![2] = n]
FillContact(n) == MkContact(IDAt(FillMask(n)), "fill", 0)

\* the table after AddContact(FillContact(1)), ..., AddContact(FillContact(n))
RECURSIVE Filled(_)
Filled(n) ==
    IF n = 0 THEN NewRoutingTable(RTLocalID)
    ELSE RoutingTableAddContact(Filled(n - 1), FillContact(n)).rt

\* the contacts AddContact is called with: two more of bucket 0, a fill
\* contact seen again at a new address, one of bucket 1, two of bucket 2,
\* one of bucket 159
RTContacts ==
    { MkContact(IDAt(Mask(129, 0)), "a1", 0),
      MkContact(IDAt(Mask(130, 0)), "a2", 0),
      MkContact(IDAt(FillMask(1)),  "a3", 1),
      MkContact(IDAt(Mask(64, 0)),  "a4", 0),
      MkContact(IDAt(Mask(32, 0)),  "a5", 0),
      MkContact(IDAt(Mask(33, 0)),  "a6", 0),
      MkContact(IDAt(Mask(0, 1)),   "a7", 0) }

\* the targets GetClosestContacts is asked for: the local ID, and IDs of
\* buckets 0, 1 and 2
RTTargets ==
    { RTLocalID, IDAt(Mask(128, 1)), IDAt(Mask(64, 7)), IDAt(Mask(32, 7)) }

RTCounts == (0..MaxCount) \cup {K}

InitRT ==
    /\ routingTable \in {NewRoutingTable(RTLocalID), Filled(K - 1)}
    /\ ret = NoRet
    /\ LookupIdle

\* RoutingTable.AddContact(contact); ret keeps what the bucket returned and
\* the bucket as it was before the call
CallAddContact(contact) ==
    LET r == RoutingTableAddContact(routingTable, contact)
        before == routingTable.buckets[getBucketIndex(routingTable, contact.ID)]
    IN  /\ routingTable' = r.rt
        /\ ret' = [op |-> "AddContact", contact |-> contact, ok |-> r.ok,
                   lenBefore |-> Len(before),
                   hadID |-> \E i \in 1..Len(before) : before[i].ID = contact.ID]
        /\ UNCHANGED lookupVars

\* RoutingTable.GetClosestContacts(target, count)
CallGetClosestContacts(target, count) ==
    /\ \E result \in GetClosestContacts(routingTable, target, count) :
          ret' = [op |-> "GetClosestContacts", target |-> target, count |-> count,
                  result |-> result]
    /\ UNCHANGED <<routingTable, lookupVars>>

\* RoutingTable.Size()
CallSize ==
    /\ ret' = [op |-> "Size", result |-> RoutingTableSize(routingTable)]
    /\ UNCHANGED <<routingTable, lookupVars>>

\* Go's encoding/hex on ASCII codes: the value of a hex digit, 255 for any
\* other character
fromHexChar(c) ==
    IF c \in 48..57 THEN c - 48
    ELSE IF c \in 97..102 THEN c - 87
    ELSE IF c \in 65..70 THEN c - 55
    ELSE 255

\* the loop of hex.Decode from source index j (Go's j, src[j-1] and src[j]
\* are the pair) with i bytes written: writing past the end of dst panics
RECURSIVE decodePairs(_, _, _, _)
decodePairs(dst, src, j, i) ==
    IF j >= Len(src) THEN [n |-> i, err |-> "nil", panic |-> FALSE, dst |-> dst, j |-> j]
    ELSE LET a == fromHexChar(src[j])
             b == fromHexChar(src[j + 1])
         IN  IF a > 15 \/ b > 15
             THEN [n |-> i, err |-> "InvalidByteError", panic |-> FALSE, dst |-> dst, j |-> j]
             ELSE IF i >= Len(dst)
             THEN [n |-> i, err |-> "nil", panic |-> TRUE, dst |-> dst, j |-> j]
             ELSE decodePairs([dst EXCEPT ![i + 1] = 16 * a + b], src, j + 2, i + 1)

\* hex.Decode(dst, src): the outcomes of the Go releases; they differ on a
\* source of odd length, which older releases reject before decoding
hexDecode(dst, src) ==
    LET r == decodePairs(dst, src, 1, 0)
        decodeFirst ==
            IF r.panic \/ r.err # "nil" \/ Len(src) % 2 = 0 THEN r
            ELSE IF fromHexChar(src[Len(src)]) > 15
                 THEN [r EXCEPT !.err = "InvalidByteError"]
                 ELSE [r EXCEPT !.err = "ErrLength"]
        lengthFirst ==
            [n |-> 0, err |-> "ErrLength", panic |-> FALSE, dst |-> dst, j |-> 1]
    IN  IF Len(src) % 2 = 1 THEN {decodeFirst, lengthFirst} ELSE {decodeFirst}

\* the outcomes of handleFindNode for the target parameter targetStr: the
\* HTTP status and the contacts of the response, or a panic of the handler
handleFindNode(rt, targetStr) ==
    IF targetStr = << >>
    THEN { [status |-> 400, panic |-> FALSE, contacts |-> << >>] }
    ELSE UNION { IF d.panic
                 THEN { [status |-> 0, panic |-> TRUE, contacts |-> << >>] }
                 ELSE IF d.err # "nil" \/ d.n # 20
                 THEN { [status |-> 400, panic |-> FALSE, contacts |-> << >>] }
                 ELSE { [status |-> 200, panic |-> FALSE, contacts |-> closestContacts] :
                        closestContacts \in GetClosestContacts(rt, d.dst, K) }
                 : d \in hexDecode(ZeroID, targetStr) }

\* NodeID.String: the 40 lower-case hex digits of the ID, as ASCII codes
hexDigit(n) == IF n < 10 THEN 48 + n ELSE 87 + n

RECURSIVE hexFrom(_, _)
hexFrom(id, i) ==
    IF i > Len(id) THEN << >>
    ELSE <<hexDigit(id[i] \div 16), hexDigit(id[i] % 16)>> \o hexFrom(id, i + 1)

NodeIDString(id) == hexFrom(id, 1)

\* the target parameters the handler is called with: none, well-formed
\* ones, too short, too long, of odd length, and with a character that is
\* no hex digit
HFValid == NodeIDString(IDAt(Mask(64, 7)))

HFTargets ==
    { << >>,
      HFValid,
      NodeIDString(RTLocalID),
      SubSeq(HFValid, 1, 38),
      SubSeq(HFValid, 1, 39),
      HFValid \o <<48>>,
      HFValid \o <<48, 49>>,
      HFValid \o <<48, 49, 50>>,
      HFValid \o <<48, 122>>,
      [HFValid EXCEPT ![40] = 122],
      [HFValid EXCEPT ![1] = 65],
      <<122, 122>> }

\* a FIND_NODE request arrives
CallHandleFindNode(targetStr) ==
    /\ \E r \in handleFindNode(routingTable, targetStr) :
          ret' = [op |-> "handleFindNode", target |-> targetStr, status |-> r.status,
                  panic |-> r.panic, contacts |-> r.contacts]
    /\ UNCHANGED <<routingTable, lookupVars>>

\* a query leaves the table as it is, so queries are made on a new table
\* and after each AddContact only
Queried == ret.op \in {"GetClosestContacts", "Size", "handleFindNode"}

NextRT ==
    \/ ~Queried /\ \E c \in RTContacts : CallAddContact(c)
    \/ ~Queried /\ \E t \in RTTargets, n \in RTCounts : CallGetClosestContacts(t, n)
    \/ ~Queried /\ CallSize
    \/ ~Queried /\ \E targetStr \in HFTargets : CallHandleFindNode(targetStr)

SpecRT == InitRT /\ [][NextRT]_vars

(***************************************************************************)
(* SpecSvc: the service registry of the DHT node (dht.services) driven by  *)
(* RegisterService and FindService.                                        *)
(***************************************************************************)
ServiceIDs == {"svc-a", "svc-b", "svc-c"}

\* ServiceInfo values (the fields that tell them apart)
ServiceInfos ==
    { [NodeID |-> RTLocalID, NodeType |-> "capacitor", Address |-> "10.0.0.1:7000"],
      [NodeID |-> RTLocalID, NodeType |-> "locker", Address |-> "10.0.0.1:7001"],
      [NodeID |-> IDAt(Mask(128, 0)), NodeType |-> "capacitor", Address |-> "10.0.0.2:7000"] }

\* NewDHT, not started
InitSvc ==
    /\ routingTable = NewRoutingTable(RTLocalID)
    /\ ret = NoRet
    /\ LookupIdle

\* RegisterService that keeps the entry a service ID already has
RegisterServiceFirstWins(serviceID, info) ==
    /\ services' = [id \in DOMAIN services \cup {serviceID} |->
                        IF id \in DOMAIN services THEN services[id] ELSE info]
    /\ ret' = [op |-> "RegisterService", serviceID |-> serviceID, info |-> info,
               err |-> "nil", replaced |-> serviceID \in DOMAIN services]
    /\ UNCHANGED <<routingTable, pc, bootstrapLeft, targetID, contacted, closestSoFar,
                   activeQueries, workers, resultChan, err, sent, queued, bgVars>>

\* RegisterService(serviceID, info): dht.services[serviceID] = info; return nil
RegisterService(serviceID, info) ==
    /\ services' = [id \in DOMAIN services \cup {serviceID} |->
                        IF id = serviceID THEN info ELSE services[id]]
    /\ ret' = [op |-> "RegisterService", serviceID |-> serviceID, info |-> info,
               err |-> "nil", replaced |-> serviceID \in DOMAIN services]
    /\ UNCHANGED <<routingTable, pc, bootstrapLeft, targetID, contacted, closestSoFar,
                   activeQueries, workers, resultChan, err, sent, queued, bgVars>>

\* FindService(serviceID): the entry of the map, or the error
FindService(serviceID) ==
    /\ ret' = IF serviceID \in DOMAIN services
              THEN [op |-> "FindService", serviceID |-> serviceID, found |-> TRUE,
                    info |-> services[serviceID], err |-> "nil"]
              ELSE [op |-> "FindService", serviceID |-> serviceID, found |-> FALSE,
                    err |-> "service not found"]
    /\ UNCHANGED <<routingTable, lookupVars>>

NextSvc ==
    \/ \E serviceID \in ServiceIDs, info \in ServiceInfos : RegisterService(serviceID, info)
    \/ \E serviceID \in ServiceIDs : FindService(serviceID)

SpecSvc == InitSvc /\ [][NextSvc]_vars

(***************************************************************************)
(* Spec: one DHT node (dht/discovery.go): Start runs bootstrap, which      *)
(* pings the configured peers and looks up the node's own ID.  Peers       *)
(* answer FIND_NODE with any list of contacts, or the RPC fails.           *)
(***************************************************************************)
\* the peers of the network, and the node itself as other peers know it
PeerB    == MkContact(IDAt(Mask(128, 0)), "b", 0)
PeerC    == MkContact(IDAt(Mask(64, 0)), "c", 0)
PeerD    == MkContact(IDAt(Mask(65, 0)), "d", 0)
PeerE    == MkContact(IDAt(Mask(0, 1)), "e", 0)
PeerSelf == MkContact(RTLocalID, "self", 0)

NetContacts == {PeerB, PeerC, PeerD, PeerE, PeerSelf}

\* the contacts the peers' FIND_NODE responses are made of
ResponseContacts == {PeerB, PeerC, PeerSelf}

\* the NodeID the peer listening at addr reports in its ping response
PingID(addr) == (CHOOSE c \in NetContacts : c.Address = addr).ID

\* config.BootstrapNodes
BootstrapConfigs == { << >>, <<"b">>, <<"b", "c", "d", "e">> }

\* the sequences of distinct elements of S of length at most n
RECURSIVE DistinctSeqs(_, _)
DistinctSeqs(S, n) ==
    IF n = 0 THEN { << >> }
    ELSE LET shorter == DistinctSeqs(S, n - 1)
         IN  shorter \cup { Append(q[1], q[2]) :
                            q \in { q \in shorter \X S : q[2] \notin Range(q[1]) } }

\* what a worker sends on resultChan: nil after a failed RPC, else the
\* contacts of the response
NilResult == [nil |-> TRUE, contacts |-> << >>]
Results ==
    {NilResult} \cup { [nil |-> FALSE, contacts |-> q] : q \in DistinctSeqs(ResponseContacts, MaxResp) }

\* NewDHT
Init ==
    /\ routingTable = NewRoutingTable(RTLocalID)
    /\ ret = NoRet
    /\ pc = "new"
    /\ bootstrapLeft \in BootstrapConfigs
    /\ targetID = ZeroID
    /\ contacted = {}
    /\ closestSoFar = << >>
    /\ activeQueries = 0
    /\ workers = {}
    /\ resultChan = << >>
    /\ err = "none"
    /\ sent = {}
    /\ queued = {}
    /\ services = EmptyServices
    /\ BgOff

\* Start up to the first RPC of bootstrap: with no bootstrap nodes
\* bootstrap returns nil at once
Start ==
    /\ pc = "new"
    /\ IF bootstrapLeft = << >>
       THEN pc' = "idle" /\ err' = "nil"
       ELSE pc' = "bootstrap" /\ err' = err
    /\ UNCHANGED <<routingTable, ret, services, bgVars, bootstrapLeft, targetID, contacted, closestSoFar,
                   activeQueries, workers, resultChan, sent, queued>>

\* addBootstrapNode that stores the temporary contact (zero NodeID) it pinged
\* with instead of the one built from the ping response
AddBootstrapNodeTemp(pingOK) ==
    /\ pc = "bootstrap"
    /\ bootstrapLeft # << >>
    /\ LET addr == Head(bootstrapLeft)
           contact == MkContact(ZeroID, addr, 1)
       IN  routingTable' = IF pingOK
                           THEN RoutingTableAddContact(routingTable, contact).rt
                           ELSE routingTable
    /\ bootstrapLeft' = Tail(bootstrapLeft)
    /\ UNCHANGED <<ret, services, bgVars, pc, targetID, contacted, closestSoFar, activeQueries, workers,
                   resultChan, err, sent, queued>>

\* addBootstrapNode(addr) for the next configured address: the ping fails
\* (logged, nothing added) or answers with the peer's NodeID
AddBootstrapNode(pingOK) ==
    /\ pc = "bootstrap"
    /\ bootstrapLeft # << >>
    /\ LET addr == Head(bootstrapLeft)
           realContact == MkContact(PingID(addr), addr, 1)
       IN  routingTable' = IF pingOK
                           THEN RoutingTableAddContact(routingTable, realContact).rt
                           ELSE routingTable
    /\ bootstrapLeft' = Tail(bootstrapLeft)
    /\ UNCHANGED <<ret, services, bgVars, pc, targetID, contacted, closestSoFar, activeQueries, workers,
                   resultChan, err, sent, queued>>

\* FindNode that gives up unless it gets Alpha seeds
FindNodeBeginNeedAlpha(target) ==
    \E closestNodes \in GetClosestContacts(routingTable, target, Alpha) :
        /\ targetID' = target
        /\ closestSoFar' = << >>
        /\ resultChan' = << >>
        /\ queued' = {}
        /\ IF Len(closestNodes) < Alpha
           THEN /\ err' = "no contacts in routing table"
                /\ pc' = "idle"
                /\ contacted' = {}
                /\ activeQueries' = 0
                /\ workers' = {}
                /\ sent' = {}
           ELSE /\ err' = "none"
                /\ pc' = "lookup"
                /\ contacted' = { closestNodes[i].Address : i \in 1..Len(closestNodes) }
                /\ activeQueries' = Len(closestNodes)
                /\ workers' = { closestNodes[i] : i \in 1..Len(closestNodes) }
                /\ sent' = { closestNodes[i] : i \in 1..Len(closestNodes) }
        /\ UNCHANGED <<routingTable, ret, services, bgVars, bootstrapLeft>>

\* FindNode without the test of len(closestNodes)
FindNodeBeginNoCheck(target) ==
    \E closestNodes \in GetClosestContacts(routingTable, target, Alpha) :
        /\ targetID' = target
        /\ closestSoFar' = << >>
        /\ resultChan' = << >>
        /\ queued' = {}
        /\ err' = "none"
        /\ pc' = "lookup"
        /\ contacted' = { closestNodes[i].Address : i \in 1..Len(closestNodes) }
        /\ activeQueries' = Len(closestNodes)
        /\ workers' = { closestNodes[i] : i \in 1..Len(closestNodes) }
        /\ sent' = { closestNodes[i] : i \in 1..Len(closestNodes) }
        /\ UNCHANGED <<routingTable, ret, services, bgVars, bootstrapLeft>>

\* FindNode(target) up to the result loop: the seeds are marked contacted
\* and one goroutine per seed is started; with no seed it returns the error
FindNodeBegin(target) ==
    \E closestNodes \in GetClosestContacts(routingTable, target, Alpha) :
        /\ targetID' = target
        /\ closestSoFar' = << >>
        /\ resultChan' = << >>
        /\ queued' = {}
        /\ IF Len(closestNodes) = 0
           THEN /\ err' = "no contacts in routing table"
                /\ pc' = "idle"
                /\ contacted' = {}
                /\ activeQueries' = 0
                /\ workers' = {}
                /\ sent' = {}
           ELSE /\ err' = "none"
                /\ pc' = "lookup"
                /\ contacted' = { closestNodes[i].Address : i \in 1..Len(closestNodes) }
                /\ activeQueries' = Len(closestNodes)
                /\ workers' = { closestNodes[i] : i \in 1..Len(closestNodes) }
                /\ sent' = { closestNodes[i] : i \in 1..Len(closestNodes) }
        /\ UNCHANGED <<routingTable, ret, services, bgVars, bootstrapLeft>>

\* bootstrap, after the pings: FindNode(dht.localNode.ID)
BootstrapFindNode ==
    /\ pc = "bootstrap"
    /\ bootstrapLeft = << >>
    /\ FindNodeBegin(routingTable.localID)

\* a worker goroutine: findNodeRPC returns and the result goes to resultChan
\* (the send waits while the channel holds Alpha results)
WorkerReport(c, result) ==
    /\ pc = "lookup"
    /\ c \in workers
    /\ Len(resultChan) < Alpha
    /\ workers' = workers \ {c}
    /\ resultChan' = Append(resultChan, result)
    /\ UNCHANGED <<routingTable, ret, services, bgVars, pc, bootstrapLeft, targetID, contacted, closestSoFar,
                   activeQueries, err, sent, queued>>

\* a merge loop that queues the new contacts without adding them to the table
RECURSIVE mergeContactsNoTable(_, _)
mergeContactsNoTable(contacts, st) ==
    IF contacts = << >> THEN st
    ELSE LET contact == Head(contacts)
             next == IF contact.Address \in st.contacted THEN st
                     ELSE [contacted    |-> st.contacted \cup {contact.Address},
                           closestSoFar |-> Append(st.closestSoFar, contact),
                           rt           |-> st.rt]
         IN  mergeContactsNoTable(Tail(contacts), next)

\* the loop over the contacts of one response: a contact whose address is
\* marked is skipped, any other is marked, queued and added to the table
RECURSIVE mergeContacts(_, _)
mergeContacts(contacts, st) ==
    IF contacts = << >> THEN st
    ELSE LET contact == Head(contacts)
             next == IF contact.Address \in st.contacted THEN st
                     ELSE [contacted    |-> st.contacted \cup {contact.Address},
                           closestSoFar |-> Append(st.closestSoFar, contact),
                           rt           |-> RoutingTableAddContact(st.rt, contact).rt]
         IN  mergeContacts(Tail(contacts), next)

\* a dispatch that starts a query for every pending candidate
dispatchAll(st) ==
    [closestSoFar  |-> << >>,
     activeQueries |-> st.activeQueries + Len(st.closestSoFar),
     workers       |-> st.workers \cup Range(st.closestSoFar),
     sent          |-> st.sent \cup Range(st.closestSoFar)]

\* a dispatch that takes the candidate at the end of closestSoFar
dispatchLast(st) ==
    IF Len(st.closestSoFar) > 0 /\ st.activeQueries < Alpha
    THEN LET next == st.closestSoFar[Len(st.closestSoFar)]
         IN  [closestSoFar  |-> SubSeq(st.closestSoFar, 1, Len(st.closestSoFar) - 1),
              activeQueries |-> st.activeQueries + 1,
              workers       |-> st.workers \cup {next},
              sent          |-> st.sent \cup {next}]
    ELSE st

\* the end of a pass of the result loop: if a candidate is pending and
\* activeQueries < Alpha, the first one is taken off closestSoFar and a
\* goroutine is started for it
dispatchNext(st) ==
    IF Len(st.closestSoFar) > 0 /\ st.activeQueries < Alpha
    THEN LET next == Head(st.closestSoFar)
         IN  [closestSoFar  |-> Tail(st.closestSoFar),
              activeQueries |-> st.activeQueries + 1,
              workers       |-> st.workers \cup {next},
              sent          |-> st.sent \cup {next}]
    ELSE st

\* a result loop that answers a failed RPC by querying a peer again
ReceiveResultRetry ==
    /\ pc = "lookup"
    /\ activeQueries > 0
    /\ resultChan # << >>
    /\ resultChan' = Tail(resultChan)
    /\ LET contacts == Head(resultChan)
           merged == mergeContacts(contacts.contacts,
                                   [contacted |-> contacted, closestSoFar |-> closestSoFar,
                                    rt |-> routingTable])
       IN  IF contacts.nil
           THEN /\ \E c \in sent \ workers : workers' = workers \cup {c}
                /\ UNCHANGED <<routingTable, contacted, closestSoFar, activeQueries, sent, queued>>
           ELSE /\ routingTable' = merged.rt
                /\ contacted' = merged.contacted
                /\ queued' = queued \cup Range(merged.closestSoFar)
                /\ \E sorted \in SortByDistance(merged.closestSoFar, targetID) :
                      LET after == dispatchNext([closestSoFar  |-> sorted,
                                                 activeQueries |-> activeQueries - 1,
                                                 workers       |-> workers,
                                                 sent          |-> sent])
                      IN  /\ closestSoFar' = after.closestSoFar
                          /\ activeQueries' = after.activeQueries
                          /\ workers' = after.workers
                          /\ sent' = after.sent
    /\ UNCHANGED <<ret, services, bgVars, pc, bootstrapLeft, targetID, err>>

\* one pass of the result loop of FindNode: receive, merge, sort, and start
\* one more query if a candidate is pending
ReceiveResult ==
    /\ pc = "lookup"
    /\ activeQueries > 0
    /\ resultChan # << >>
    /\ resultChan' = Tail(resultChan)
    /\ LET contacts == Head(resultChan)
           merged == mergeContacts(contacts.contacts,
                                   [contacted |-> contacted, closestSoFar |-> closestSoFar,
                                    rt |-> routingTable])
       IN  IF contacts.nil
           THEN \* continue
                /\ activeQueries' = activeQueries - 1
                /\ UNCHANGED <<routingTable, contacted, closestSoFar, workers, sent, queued>>
           ELSE /\ routingTable' = merged.rt
                /\ contacted' = merged.contacted
                /\ queued' = queued \cup Range(merged.closestSoFar)
                /\ \E sorted \in SortByDistance(merged.closestSoFar, targetID) :
                      LET after == dispatchNext([closestSoFar  |-> sorted,
                                                 activeQueries |-> activeQueries - 1,
                                                 workers       |-> workers,
                                                 sent          |-> sent])
                      IN  /\ closestSoFar' = after.closestSoFar
                          /\ activeQueries' = after.activeQueries
                          /\ workers' = after.workers
                          /\ sent' = after.sent
    /\ UNCHANGED <<ret, services, bgVars, pc, bootstrapLeft, targetID, err>>

\* a result loop that goes on until no candidate is pending
FindNodeReturnWhenDrained ==
    /\ pc = "lookup"
    /\ activeQueries = 0
    /\ closestSoFar = << >>
    /\ pc' = "idle"
    /\ err' = "nil"
    /\ UNCHANGED <<routingTable, ret, services, bgVars, bootstrapLeft, targetID, contacted, closestSoFar,
                   activeQueries, workers, resultChan, sent, queued>>

\* the loop condition fails: FindNode returns nil
FindNodeReturn ==
    /\ pc = "lookup"
    /\ activeQueries = 0
    /\ pc' = "idle"
    /\ err' = "nil"
    /\ UNCHANGED <<routingTable, ret, services, bgVars, bootstrapLeft, targetID, contacted, closestSoFar,
                   activeQueries, workers, resultChan, sent, queued>>

Next ==
    \/ Start
    \/ \E pingOK \in BOOLEAN : AddBootstrapNode(pingOK)
    \/ BootstrapFindNode
    \/ \E c \in workers, result \in Results : WorkerReport(c, result)
    \/ ReceiveResult
    \/ FindNodeReturn

Spec == Init /\ [][Next]_vars

\* the node of Spec with its goroutines scheduled: every started RPC reports
\* (it answers, fails or runs into the client's timeout), and the goroutine
\* running FindNode takes its next step when it can
\* NewDHT with config.BootstrapNodes = [c, d, e]
InitLive ==
    /\ routingTable = NewRoutingTable(RTLocalID)
    /\ ret = NoRet
    /\ pc = "new"
    /\ bootstrapLeft = <<"c", "d", "e">>
    /\ targetID = ZeroID
    /\ contacted = {}
    /\ closestSoFar = << >>
    /\ activeQueries = 0
    /\ workers = {}
    /\ resultChan = << >>
    /\ err = "none"
    /\ sent = {}
    /\ queued = {}
    /\ services = EmptyServices
    /\ BgOff

\* the result loop can take a pass: its condition holds and a result waits
ReceiveResultEnabled == pc = "lookup" /\ activeQueries > 0 /\ resultChan # << >>

\* (the weak fairness of ReceiveResult is written out with its enabling
\* condition)
SpecLive ==
    /\ InitLive
    /\ [][Next]_vars
    /\ WF_vars(\E c \in workers, result \in Results : WorkerReport(c, result))
    /\ ([]<>(~ReceiveResultEnabled) \/ []<><<ReceiveResult>>_vars)
    /\ WF_vars(FindNodeReturn)

(***************************************************************************)
(* SpecRefresh: a node that bootstraps from four peers and then runs the   *)
(* lookups of its refresh loop, one after the other.  A response may name  *)
(* the address of peer b under a NodeID other than the one b's ping        *)
(* reported.                                                               *)
(***************************************************************************)
\* the address of b under another NodeID of bucket 0
PeerB2 == MkContact(IDAt(Mask(129, 0)), "b", 0)

RefreshResults ==
    {NilResult} \cup { [nil |-> FALSE, contacts |-> q] : q \in DistinctSeqs({PeerB2}, 1) }

\* the buckets the refresh loop's rand.Intn(160) picks
RefreshLookupBuckets == {0, 159}

InitRefresh ==
    /\ routingTable = NewRoutingTable(RTLocalID)
    /\ ret = NoRet
    /\ pc = "new"
    /\ bootstrapLeft = <<"b", "c", "d", "e">>
    /\ targetID = ZeroID
    /\ contacted = {}
    /\ closestSoFar = << >>
    /\ activeQueries = 0
    /\ workers = {}
    /\ resultChan = << >>
    /\ err = "none"
    /\ sent = {}
    /\ queued = {}
    /\ services = EmptyServices
    /\ BgOff

\* a tick of refreshRoutingTable: FindNode(GetRandomIDFromBucket(bucketIndex))
RefreshFindNode(bucketIndex) ==
    /\ pc = "idle"
    /\ FindNodeBegin(GetRandomIDFromBucket(routingTable, bucketIndex))

NextRefresh ==
    \/ Start
    \/ \E pingOK \in BOOLEAN : AddBootstrapNode(pingOK)
    \/ BootstrapFindNode
    \/ \E bucketIndex \in RefreshLookupBuckets : RefreshFindNode(bucketIndex)
    \/ \E c \in workers, result \in RefreshResults : WorkerReport(c, result)
    \/ ReceiveResult
    \/ FindNodeReturn

SpecRefresh == InitRefresh /\ [][NextRefresh]_vars

(***************************************************************************)
(* SpecServe: a node answering the requests of its HTTP server             *)
(* (/dht/ping, /dht/findnode, /dht/findvalue, /dht/store) while its own    *)
(* lookups add contacts and its owner registers services.                  *)
(***************************************************************************)
\* the contacts the node's own lookups learn
ServeContacts == {PeerB, PeerC}

\* the peers that send requests
Callers == {PeerB, PeerD}

InitServe ==
    /\ routingTable = NewRoutingTable(RTLocalID)
    /\ ret = NoRet
    /\ LookupIdle

\* handlePing that adds the caller to the routing table
handlePingLearn(caller) ==
    /\ routingTable' = RoutingTableAddContact(routingTable, caller).rt
    /\ ret' = [op |-> "handlePing", caller |-> caller, status |-> 200,
               NodeID |-> routingTable.localID]
    /\ UNCHANGED lookupVars

\* handlePing: the response carries the local node's info; nothing is read
\* from the request
handlePing(caller) ==
    /\ ret' = [op |-> "handlePing", caller |-> caller, status |-> 200,
               NodeID |-> routingTable.localID]
    /\ UNCHANGED <<routingTable, lookupVars>>

\* handleFindValue: http.Error(w, "Not implemented", 501)
handleFindValue(caller) ==
    /\ ret' = [op |-> "handleFindValue", caller |-> caller, status |-> 501]
    /\ UNCHANGED <<routingTable, lookupVars>>

\* handleStore: http.Error(w, "Not implemented", 501)
handleStore(caller) ==
    /\ ret' = [op |-> "handleStore", caller |-> caller, status |-> 501]
    /\ UNCHANGED <<routingTable, lookupVars>>

Handlers == {"handlePing", "handleFindNode", "handleFindValue", "handleStore"}

\* a request leaves the node as it is, so requests are served on a new node
\* and after each AddContact or RegisterService only
Served == ret.op \in Handlers

NextServe ==
    \/ ~Served /\ \E c \in ServeContacts : CallAddContact(c)
    \/ ~Served /\ \E serviceID \in ServiceIDs, info \in ServiceInfos : RegisterService(serviceID, info)
    \/ ~Served /\ \E caller \in Callers : handlePing(caller)
    \/ ~Served /\ \E targetStr \in HFTargets : CallHandleFindNode(targetStr)
    \/ ~Served /\ \E caller \in Callers : handleFindValue(caller)
    \/ ~Served /\ \E caller \in Callers : handleStore(caller)

SpecServe == InitServe /\ [][NextServe]_vars

(***************************************************************************)
(* SpecStop: a started DHT node, its three background loops and Stop.      *)
(* The lookup a refresh tick runs is taken as one call that returns (every *)
(* RPC completes or times out): its effect on the routing table is the     *)
(* AddContact of the contacts it learns.                                   *)
(***************************************************************************)
\* the buckets rand.Intn(160) draws for a refresh
RefreshBuckets == {0, 1, 159}

\* the routing tables FindNode(target) can leave behind: the table itself
\* without seeds, else the table after the merge loop has seen some contacts
\* of the responses
FindNodeTables(rt, target) ==
    UNION { IF Len(closestNodes) = 0 THEN {rt}
            ELSE { mergeContacts(q, [contacted |-> { closestNodes[i].Address :
                                                     i \in 1..Len(closestNodes) },
                                     closestSoFar |-> << >>,
                                     rt |-> rt]).rt :
                   q \in DistinctSeqs(ResponseContacts, Cardinality(ResponseContacts)) }
            : closestNodes \in GetClosestContacts(rt, target, Alpha) }

\* after Start: the loops wait in their select, the table is empty or holds
\* the bootstrap peer
InitStop ==
    /\ routingTable \in { NewRoutingTable(RTLocalID),
                          RoutingTableAddContact(NewRoutingTable(RTLocalID),
                                                 MkContact(PeerB.ID, "b", 1)).rt }
    /\ ret = NoRet
    /\ pc = "idle"
    /\ bootstrapLeft = << >>
    /\ targetID = ZeroID
    /\ contacted = {}
    /\ closestSoFar = << >>
    /\ activeQueries = 0
    /\ workers = {}
    /\ resultChan = << >>
    /\ err = "none"
    /\ sent = {}
    /\ queued = {}
    /\ services = EmptyServices
    /\ loop = [l \in Loops |-> "select"]
    /\ tickReady = [l \in Loops |-> FALSE]
    /\ shutdown = FALSE
    /\ stop = "none"
    /\ NoCallers

stopFrame == <<ret, pc, bootstrapLeft, contacted, closestSoFar, activeQueries, workers,
               resultChan, err, sent, queued, services, rtHeld, kbHeld, proc>>

\* the ticker of a running loop sends a tick (its channel holds one)
Tick(l) ==
    /\ loop[l] # "done"
    /\ ~tickReady[l]
    /\ tickReady' = [tickReady EXCEPT ![l] = TRUE]
    /\ UNCHANGED <<routingTable, targetID, loop, shutdown, stop, stopFrame>>

\* refreshRoutingTable, case <-ticker.C: a random ID of a random bucket is
\* looked up
RefreshTick(bucketIndex) ==
    /\ loop["refreshRoutingTable"] = "select"
    /\ tickReady["refreshRoutingTable"]
    /\ tickReady' = [tickReady EXCEPT !["refreshRoutingTable"] = FALSE]
    /\ targetID' = GetRandomIDFromBucket(routingTable, bucketIndex)
    /\ loop' = [loop EXCEPT !["refreshRoutingTable"] = "FindNode"]
    /\ UNCHANGED <<routingTable, shutdown, stop, stopFrame>>

\* dht.FindNode(randomID) returns; its error is dropped
RefreshFindNodeReturns ==
    /\ loop["refreshRoutingTable"] = "FindNode"
    /\ routingTable' \in FindNodeTables(routingTable, targetID)
    /\ loop' = [loop EXCEPT !["refreshRoutingTable"] = "select"]
    /\ UNCHANGED <<targetID, tickReady, shutdown, stop, stopFrame>>

\* republishServices and expireContacts, case <-ticker.C: nothing is done
IdleTick(l) ==
    /\ l \in {"republishServices", "expireContacts"}
    /\ loop[l] = "select"
    /\ tickReady[l]
    /\ tickReady' = [tickReady EXCEPT ![l] = FALSE]
    /\ UNCHANGED <<routingTable, targetID, loop, shutdown, stop, stopFrame>>

\* any loop, case <-dht.shutdown: return (wg.Done, ticker.Stop)
LoopExit(l) ==
    /\ loop[l] = "select"
    /\ shutdown
    /\ loop' = [loop EXCEPT ![l] = "done"]
    /\ UNCHANGED <<routingTable, targetID, tickReady, shutdown, stop, stopFrame>>

\* Stop: close(dht.shutdown)
StopClose ==
    /\ stop = "none"
    /\ shutdown' = TRUE
    /\ stop' = "server.Shutdown"
    /\ UNCHANGED <<routingTable, targetID, loop, tickReady, stopFrame>>

\* Stop: dht.server.Shutdown(ctx) returns nil, or an error that Stop returns
StopServerShutdown(ok) ==
    /\ stop = "server.Shutdown"
    /\ stop' = IF ok THEN "wg.Wait" ELSE "returned error"
    /\ UNCHANGED <<routingTable, targetID, loop, tickReady, shutdown, stopFrame>>

\* Stop that returns nil without waiting for the loops
StopNoWait ==
    /\ stop = "wg.Wait"
    /\ stop' = "returned nil"
    /\ UNCHANGED <<routingTable, targetID, loop, tickReady, shutdown, stopFrame>>

\* Stop: dht.wg.Wait() returns once the three loops have called wg.Done;
\* return nil
StopWait ==
    /\ stop = "wg.Wait"
    /\ \A l \in Loops : loop[l] = "done"
    /\ stop' = "returned nil"
    /\ UNCHANGED <<routingTable, targetID, loop, tickReady, shutdown, stopFrame>>

NextStop ==
    \/ \E l \in Loops : Tick(l)
    \/ \E i \in RefreshBuckets : RefreshTick(i)
    \/ RefreshFindNodeReturns
    \/ \E l \in Loops : IdleTick(l)
    \/ \E l \in Loops : LoopExit(l)
    \/ StopClose
    \/ \E ok \in BOOLEAN : StopServerShutdown(ok)
    \/ StopWait

\* the return of the refresh lookup that learnt nothing: one of the steps of
\* RefreshFindNodeReturns, enabled whenever that is
RefreshFindNodeReturnsSame ==
    /\ loop["refreshRoutingTable"] = "FindNode"
    /\ loop' = [loop EXCEPT !["refreshRoutingTable"] = "select"]
    /\ UNCHANGED <<routingTable, targetID, tickReady, shutdown, stop, stopFrame>>

\* select picks among its ready cases at random, so a loop whose shutdown
\* case is ready at every select takes it: the two loops that never leave
\* their select have the exit enabled for good, the refresh loop has it
\* enabled again after each lookup; the lookup of a refresh returns because
\* its RPCs complete or time out (the fairness condition names the return
\* that leaves the table as it is; any return of the lookup meets it, since
\* the lookup is then no longer running)
SpecStop ==
    /\ InitStop
    /\ [][NextStop]_vars
    /\ WF_vars(LoopExit("republishServices"))
    /\ WF_vars(LoopExit("expireContacts"))
    /\ SF_vars(LoopExit("refreshRoutingTable"))
    /\ WF_vars(RefreshFindNodeReturnsSame)

(***************************************************************************)
(* SpecConc: goroutines calling one routing table at the same time.  Two   *)
(* run RoutingTable.AddContact, one runs RoutingTable.Size.  A call is a   *)
(* sequence of steps: taking the table's mutex, taking the bucket's mutex, *)
(* the scan of the bucket's list, the list operation, and the deferred     *)
(* unlocks.                                                                *)
(***************************************************************************)
\* the contacts the writers add: two new ones of bucket 0 and a held one
ConcContacts ==
    { MkContact(IDAt(Mask(129, 0)), "a1", 0),
      MkContact(IDAt(Mask(130, 0)), "a2", 0),
      MkContact(IDAt(FillMask(1)),  "a3", 1) }

\* a mutex that never makes a caller wait
canLockAlways(held) == TRUE

\* sync.RWMutex.Lock proceeds when nobody holds the mutex
canLock(held) == held = {}

\* sync.RWMutex.RLock proceeds when no writer holds the mutex
canRLock(held) == \A h \in held : h.mode = "R"

\* the holders of the mutex of bucket i
kbHolders(i) == { h \in kbHeld : h.bucket = i }

\* the bucket a writer's contact belongs to
procBucket(p) == getBucketIndex(routingTable, proc[p].contact.ID)

InitConc ==
    /\ routingTable = Filled(K - 1)
    /\ ret = NoRet
    /\ pc = "off"
    /\ bootstrapLeft = << >>
    /\ targetID = ZeroID
    /\ contacted = {}
    /\ closestSoFar = << >>
    /\ activeQueries = 0
    /\ workers = {}
    /\ resultChan = << >>
    /\ err = FALSE
    /\ sent = {}
    /\ queued = {}
    /\ services = EmptyServices
    /\ loop = [l \in Loops |-> "off"]
    /\ tickReady = [l \in Loops |-> FALSE]
    /\ shutdown = FALSE
    /\ stop = "none"
    /\ NoCallers

concFrame == <<ret, pc, bootstrapLeft, targetID, contacted, closestSoFar, activeQueries,
               workers, resultChan, err, sent, queued, services, loop, tickReady,
               shutdown, stop>>

\* a goroutine calls rt.AddContact(contact)
AddContactCall(p, contact) ==
    /\ proc[p].pc = "idle"
    /\ proc' = [proc EXCEPT ![p] = [pc |-> "rt.mutex.Lock", contact |-> contact,
                                    ok |-> FALSE, size |-> 0]]
    /\ UNCHANGED <<routingTable, rtHeld, kbHeld, concFrame>>

\* rt.mutex.Lock()
RTLock(p) ==
    /\ proc[p].pc = "rt.mutex.Lock"
    /\ canLock(rtHeld)
    /\ rtHeld' = rtHeld \cup {[proc |-> p, mode |-> "W"]}
    /\ proc' = [proc EXCEPT ![p].pc = "kb.mutex.Lock"]
    /\ UNCHANGED <<routingTable, kbHeld, concFrame>>

\* bucketIndex := rt.getBucketIndex(contact.ID); kb.mutex.Lock()
KBLock(p) ==
    /\ proc[p].pc = "kb.mutex.Lock"
    /\ canLock(kbHolders(procBucket(p)))
    /\ kbHeld' = kbHeld \cup {[bucket |-> procBucket(p), proc |-> p, mode |-> "W"]}
    /\ proc' = [proc EXCEPT ![p].pc = "scan"]
    /\ UNCHANGED <<routingTable, rtHeld, concFrame>>

\* the loop over kb.contacts looking for an element Equal to the contact
Scan(p) ==
    /\ proc[p].pc = "scan"
    /\ LET kb == routingTable.buckets[procBucket(p)]
       IN  proc' = [proc EXCEPT ![p].pc =
                        IF \E i \in 1..Len(kb) : ContactEqual(kb[i], proc[p].contact)
                        THEN "MoveToBack" ELSE "Len"]
    /\ UNCHANGED <<routingTable, rtHeld, kbHeld, concFrame>>

\* kb.contacts.MoveToBack(e); e.Value = contact; return true
MoveToBack(p) ==
    /\ proc[p].pc = "MoveToBack"
    /\ LET b  == procBucket(p)
           kb == routingTable.buckets[b]
           others == SelectSeq(kb, LAMBDA c : ~ContactEqual(c, proc[p].contact))
       IN  routingTable' = [routingTable EXCEPT !.buckets[b] = Append(others, proc[p].contact)]
    /\ proc' = [proc EXCEPT ![p].pc = "kb.mutex.Unlock", ![p].ok = TRUE]
    /\ UNCHANGED <<rtHeld, kbHeld, concFrame>>

\* if kb.contacts.Len() < K
CheckLen(p) ==
    /\ proc[p].pc = "Len"
    /\ proc' = [proc EXCEPT ![p].pc =
                    IF Len(routingTable.buckets[procBucket(p)]) < K
                    THEN "PushBack" ELSE "kb.mutex.Unlock"]
    /\ UNCHANGED <<routingTable, rtHeld, kbHeld, concFrame>>

\* kb.contacts.PushBack(contact); return true
PushBack(p) ==
    /\ proc[p].pc = "PushBack"
    /\ LET b == procBucket(p)
       IN  routingTable' = [routingTable EXCEPT !.buckets[b] = Append(@, proc[p].contact)]
    /\ proc' = [proc EXCEPT ![p].pc = "kb.mutex.Unlock", ![p].ok = TRUE]
    /\ UNCHANGED <<rtHeld, kbHeld, concFrame>>

\* the deferred kb.mutex.Unlock()
KBUnlock(p) ==
    /\ proc[p].pc = "kb.mutex.Unlock"
    /\ kbHeld' = { h \in kbHeld : h.proc # p }
    /\ proc' = [proc EXCEPT ![p].pc = "rt.mutex.Unlock"]
    /\ UNCHANGED <<routingTable, rtHeld, concFrame>>

\* the deferred rt.mutex.Unlock(); AddContact returns
RTUnlock(p) ==
    /\ proc[p].pc = "rt.mutex.Unlock"
    /\ rtHeld' = { h \in rtHeld : h.proc # p }
    /\ proc' = [proc EXCEPT ![p].pc = "idle"]
    /\ UNCHANGED <<routingTable, kbHeld, concFrame>>

\* a goroutine calls rt.Size()
SizeCall(p) ==
    /\ proc[p].pc = "idle"
    /\ proc' = [proc EXCEPT ![p].pc = "rt.mutex.RLock"]
    /\ UNCHANGED <<routingTable, rtHeld, kbHeld, concFrame>>

\* rt.mutex.RLock()
RTRLock(p) ==
    /\ proc[p].pc = "rt.mutex.RLock"
    /\ canRLock(rtHeld)
    /\ rtHeld' = rtHeld \cup {[proc |-> p, mode |-> "R"]}
    /\ proc' = [proc EXCEPT ![p].pc = "sum"]
    /\ UNCHANGED <<routingTable, kbHeld, concFrame>>

\* the loop adding bucket.Size(), each under the bucket's RLock
SumBuckets(p) ==
    /\ proc[p].pc = "sum"
    /\ canRLock(kbHeld)
    /\ proc' = [proc EXCEPT ![p].pc = "rt.mutex.RUnlock",
                            ![p].size = RoutingTableSize(routingTable)]
    /\ UNCHANGED <<routingTable, rtHeld, kbHeld, concFrame>>

\* the deferred rt.mutex.RUnlock(); Size returns
RTRUnlock(p) ==
    /\ proc[p].pc = "rt.mutex.RUnlock"
    /\ rtHeld' = { h \in rtHeld : h.proc # p }
    /\ proc' = [proc EXCEPT ![p].pc = "idle"]
    /\ UNCHANGED <<routingTable, kbHeld, concFrame>>

NextConc ==
    \/ \E p \in Writers, contact \in ConcContacts : AddContactCall(p, contact)
    \/ \E p \in Writers : RTLock(p)
    \/ \E p \in Writers : KBLock(p)
    \/ \E p \in Writers : Scan(p)
    \/ \E p \in Writers : MoveToBack(p)
    \/ \E p \in Writers : CheckLen(p)
    \/ \E p \in Writers : PushBack(p)
    \/ \E p \in Writers : KBUnlock(p)
    \/ \E p \in Writers : RTUnlock(p)
    \/ \E p \in Readers : SizeCall(p)
    \/ \E p \in Readers : RTRLock(p)
    \/ \E p \in Readers : SumBuckets(p)
    \/ \E p \in Readers : RTRUnlock(p)

SpecConc == InitConc /\ [][NextConc]_vars

(***************************************************************************)
(* Properties of the pure functions.                                       *)
(***************************************************************************)
\* bit p of an ID, p counted from the most significant bit of byte 0
BitOf(id, p) == (id[(p \div 8) + 1] \div Pow2(7 - (p % 8))) % 2

ID80 == Mask(128, 0)
ID01 == Mask(0, 1)

\* C3: getBucketIndex(C) is in 0..159; for C different from the local ID L
\* it is the first position (from the most significant bit) where L and C
\* differ, for C = L it is 159; with L all-zero, 0x80 00..00 maps to 0 and
\* 00..00 01 maps to 159.
C3_BucketIndex ==
    ret.op = "getBucketIndex" =>
        LET L == routingTable.localID
            C == ret.id
            r == ret.result
        IN  /\ r \in 0..159
            /\ C # L => /\ BitOf(L, r) # BitOf(C, r)
                        /\ \A p \in 0..(r - 1) : BitOf(L, p) = BitOf(C, p)
            /\ C = L => r = 159
            /\ (L = ZeroID /\ C = ID80) => r = 0
            /\ (L = ZeroID /\ C = ID01) => r = 159

C3_Witness ==
    /\ ret.op = "getBucketIndex"
    /\ routingTable.localID = LocalA
    /\ ret.id = Distance(LocalA, TailFrom(77))
    /\ ret.result = 77

\* C4: GetRandomIDFromBucket(i) is the local ID with exactly bit i flipped,
\* and getBucketIndex maps it to i.
C4_RandomIDInBucket ==
    ret.op = "GetRandomIDFromBucket" =>
        LET L == routingTable.localID
        IN  /\ \A p \in 0..(NumBuckets - 1) :
                  BitOf(ret.result, p) = IF p = ret.index THEN 1 - BitOf(L, p)
                                         ELSE BitOf(L, p)
            /\ getBucketIndex(routingTable, ret.result) = ret.index

C4_Witness ==
    /\ ret.op = "GetRandomIDFromBucket"
    /\ ret.index = 42
    /\ routingTable.localID = LocalA
    /\ ret.result # LocalA

\* the sum of two 20-byte big-endian numbers as 21 bytes
RECURSIVE addFrom(_, _, _, _, _)
addFrom(x, y, i, carry, acc) ==
    IF i = 0 THEN <<carry>> \o acc
    ELSE LET t == x[i] + y[i] + carry
         IN  addFrom(x, y, i - 1, t \div 256, <<t % 256>> \o acc)

AddBE(x, y) == addFrom(x, y, IDLen, 0, << >>)

\* a <= b for byte sequences of one length read as big-endian numbers
LexLE(a, b) ==
    \/ a = b
    \/ \E i \in 1..Len(a) : a[i] < b[i] /\ \A j \in 1..(i - 1) : a[j] = b[j]

\* C16: Distance always yields 20 bytes and the same value for the same
\* arguments; distance(a,b) = distance(b,a); distance(a,a) is all-zero and
\* distance(a,b) is all-zero only for a = b; as big-endian numbers,
\* distance(a,c) <= distance(a,b) + distance(b,c).
C16_DistanceAlgebra ==
    ret.op = "Distance" =>
        /\ Len(ret.ab) = IDLen
        /\ \A i \in 1..IDLen : ret.ab[i] \in Byte
        /\ ret.ab = Distance(ret.a, ret.b)
        /\ ret.ab = ret.ba
        /\ ret.aa = ZeroID
        /\ (ret.ab = ZeroID) <=> (ret.a = ret.b)
        /\ LexLE(<<0>> \o ret.ac, AddBE(ret.ab, ret.bc))

\* three different IDs whose two distances add up past 160 bits
C16_Witness ==
    /\ ret.op = "Distance"
    /\ ret.a # ret.b /\ ret.b # ret.c /\ ret.a # ret.c
    /\ AddBE(ret.ab, ret.bc)[1] = 1
    /\ ret.ac # ZeroID

(***************************************************************************)
(* Properties of the k-bucket and the routing table.                       *)
(***************************************************************************)
\* the contacts held by the table, over all buckets
TableContacts(rt) == UNION { Range(rt.buckets[i]) : i \in 0..(NumBuckets - 1) }

\* the bucket of rt that id belongs to
BucketOf(rt, id) == rt.buckets[getBucketIndex(rt, id)]

TableIDs(rt) == { c.ID : c \in TableContacts(rt) }

\* a <= b reading the 20 bytes as an unsigned big-endian number
BigEndianLE(a, b) ==
    \/ a = b
    \/ \E i \in 1..IDLen : a[i] < b[i] /\ \A j \in 1..(i - 1) : a[j] = b[j]

\* C1: a bucket never holds more than K contacts; AddContact returns true
\* for a new NodeID while the bucket holds fewer than K, false for a new
\* NodeID when it holds K, and true for a NodeID it already holds; the
\* contact is the most recently seen one exactly when true was returned.
C1_BucketCapacity ==
    /\ \A i \in 0..(NumBuckets - 1) : Len(routingTable.buckets[i]) <= K
    /\ ret.op = "AddContact" =>
          LET kb == routingTable.buckets[getBucketIndex(routingTable, ret.contact.ID)]
          IN  /\ (ret.lenBefore < K /\ ~ret.hadID) => ret.ok
              /\ (ret.lenBefore = K /\ ~ret.hadID) => ~ret.ok
              /\ ret.hadID => ret.ok
              /\ ret.ok <=> (kb # << >> /\ kb[Len(kb)] = ret.contact)

C1_Witness ==
    /\ ret.op = "AddContact"
    /\ ret.lenBefore = K
    /\ ~ret.hadID
    /\ ~ret.ok

\* C5: GetClosestContacts(target, count) is sorted by non-decreasing XOR
\* distance to target, holds no NodeID twice, holds only contacts of the
\* table and is no longer than min(count, table size).
C5_ClosestSortedUnique ==
    ret.op = "GetClosestContacts" =>
        LET r == ret.result
            d(i) == Distance(r[i].ID, ret.target)
        IN  /\ \A i \in 1..(Len(r) - 1) : BigEndianLE(d(i), d(i + 1))
            /\ \A i, j \in 1..Len(r) : i # j => r[i].ID # r[j].ID
            /\ Range(r) \subseteq TableContacts(routingTable)
            /\ Len(r) <= ret.count
            /\ Len(r) <= Cardinality(TableContacts(routingTable))

C5_Witness ==
    /\ ret.op = "GetClosestContacts"
    /\ ret.count = Alpha
    /\ Len(ret.result) = Alpha
    /\ \E i \in 0..(NumBuckets - 1) : Len(routingTable.buckets[i]) = K

\* C2: every contact stored in bucket i of the routing table differs from
\* the local ID in bit i and agrees with it in bits 0..i-1, after the
\* AddContact calls of bootstrap and of lookups too.
C2_BucketHoldsPrefix ==
    \A i \in 0..(NumBuckets - 1) :
        \A c \in Range(routingTable.buckets[i]) :
            /\ BitOf(c.ID, i) # BitOf(routingTable.localID, i)
            /\ \A p \in 0..(i - 1) : BitOf(c.ID, p) = BitOf(routingTable.localID, p)

\* the contacts of a bucket other than the one with NodeID id, in order
Others(kb, id) == SelectSeq(kb, LAMBDA c : c.ID # id)

\* C15: AddContact of a contact whose NodeID the bucket holds returns true,
\* leaves the bucket's size and its set of NodeIDs unchanged, puts the
\* contact at the most-recently-seen end and keeps the order of the others;
\* adding the contact once more gives the same bucket.
C15_ReinsertMovesToBack ==
    /\ [][ (ret'.op = "AddContact" /\ ret'.hadID) =>
             LET id == ret'.contact.ID
                 old == BucketOf(routingTable, id)
                 new == BucketOf(routingTable', id)
             IN  /\ ret'.ok
                 /\ Len(new) = Len(old)
                 /\ { c.ID : c \in Range(new) } = { c.ID : c \in Range(old) }
                 /\ new[Len(new)] = ret'.contact
                 /\ Others(new, id) = Others(old, id) ]_vars
    /\ []((ret.op = "AddContact" /\ ret.ok) =>
             KBucketAddContact(BucketOf(routingTable, ret.contact.ID), ret.contact).contacts
                 = BucketOf(routingTable, ret.contact.ID))

\* the contact at the front of a bucket of K-1 was added again, with a newer
\* timestamp, and is now at the back
C15_Witness ==
    /\ ret.op = "AddContact"
    /\ ret.hadID
    /\ ret.lenBefore = K - 1
    /\ ret.contact = MkContact(FillContact(1).ID, "a3", 1)
    /\ BucketOf(routingTable, ret.contact.ID)[K - 1] = ret.contact
    /\ BucketOf(routingTable, ret.contact.ID)[1] # ret.contact

RECURSIVE Reverse(_)
Reverse(s) == IF s = << >> THEN << >> ELSE Append(Reverse(Tail(s)), Head(s))

\* the table with the same local ID that AddContact builds when the contacts
\* of rt arrive in the opposite order: every bucket holds the same contacts,
\* most recently seen first
ReverseBuckets(rt) ==
    [rt EXCEPT !.buckets = [i \in 0..(NumBuckets - 1) |-> Reverse(rt.buckets[i])]]

\* C20: a table that received the same contacts in another order returns the
\* same sequence from GetClosestContacts(target, count).
C20_OrderIndependent ==
    ret.op = "GetClosestContacts" =>
        GetClosestContacts(ReverseBuckets(routingTable), ret.target, ret.count)
            = GetClosestContacts(routingTable, ret.target, ret.count)

\* C21: RoutingTable.AddContact of a new NodeID whose bucket holds K
\* contacts changes nothing: every bucket keeps its contents and order, no
\* contact is evicted, the size of the table stays, and the caller gets no
\* error (the bucket's false is not passed on).
C21_FullBucketDrops ==
    [][ (ret'.op = "AddContact" /\ ret'.lenBefore = K /\ ~ret'.hadID) =>
          /\ routingTable' = routingTable
          /\ RoutingTableSize(routingTable') = RoutingTableSize(routingTable)
          /\ ret'.contact \notin TableContacts(routingTable')
          /\ ~ret'.ok ]_vars

\* a contact of a new NodeID was offered to a bucket of K and is not in the
\* table, which holds contacts in other buckets too
C21_Witness ==
    /\ ret.op = "AddContact"
    /\ ret.lenBefore = K
    /\ ~ret.hadID
    /\ ret.contact.ID \notin TableIDs(routingTable)
    /\ Len(BucketOf(routingTable, ret.contact.ID)) = K
    /\ RoutingTableSize(routingTable) > K

\* a target parameter that is not the 40 hex digits of a NodeID
Malformed(targetStr) ==
    \/ Len(targetStr) # 2 * IDLen
    \/ \E i \in 1..Len(targetStr) :
          targetStr[i] \notin (48..57) \cup (97..102) \cup (65..70)

\* C18: handleFindNode answers every malformed target with HTTP 400 and no
\* contacts, and does not panic.
C18_MalformedTargetRejected ==
    (ret.op = "handleFindNode" /\ Malformed(ret.target)) =>
        /\ ~ret.panic
        /\ ret.status = 400
        /\ ret.contacts = << >>

\* C6: no contact of the table that is absent from the result of
\* GetClosestContacts is strictly closer to the target than a contact of
\* the result.
C6_ClosestAreReturned ==
    ret.op = "GetClosestContacts" =>
        \A c \in TableContacts(routingTable) \ Range(ret.result) :
            \A i \in 1..Len(ret.result) :
                BigEndianLE(Distance(ret.result[i].ID, ret.target),
                            Distance(c.ID, ret.target))

(***************************************************************************)
(* Properties of the iterative lookup.                                     *)
(***************************************************************************)
\* C7: while FindNode runs, the FIND_NODE RPCs that were dispatched and have
\* not been handled by the result loop (those still running and those whose
\* result waits in resultChan) number activeQueries, and never more than
\* Alpha.
C7_AtMostAlphaInFlight ==
    /\ Cardinality(workers) + Len(resultChan) = activeQueries
    /\ activeQueries <= Alpha
    /\ Cardinality(workers) <= Alpha

C7_Witness ==
    /\ pc = "lookup"
    /\ Cardinality(workers) = Alpha
    /\ Cardinality(sent) > Alpha
    /\ closestSoFar # << >>

\* C8: when FindNode has returned nil, no RPC is in flight and every contact
\* that was put on the candidate list during the lookup has been sent a
\* FIND_NODE RPC.
C8_ReturnsWithAllQueried ==
    (pc = "idle" /\ err = "nil") =>
        /\ activeQueries = 0
        /\ workers = {}
        /\ queued \subseteq sent

\* C9: during the result loop either Alpha RPCs are in flight or no
\* candidate is pending (before the first completion is handled the
\* candidate list is empty, so this speaks of the states after a completion
\* was handled).
C9_KeepsAlphaInFlight ==
    pc = "lookup" => (activeQueries = Alpha \/ closestSoFar = << >>)

\* C10: FindNode on an empty routing table returns the error "no contacts in
\* routing table" at once, dispatches no RPC and leaves the table unchanged.
C10_EmptyTableError ==
    [][ (pc = "bootstrap" /\ bootstrapLeft = << >> /\ TableContacts(routingTable) = {}) =>
          /\ err' = "no contacts in routing table"
          /\ pc' = "idle"
          /\ routingTable' = routingTable
          /\ workers' = {}
          /\ sent' = {}
          /\ activeQueries' = 0
          /\ resultChan' = << >> ]_vars

C10_Witness ==
    /\ err = "no contacts in routing table"
    /\ pc = "idle"
    /\ bootstrapLeft = << >>
    /\ TableContacts(routingTable) = {}
    /\ sent = {}

\* the step of bootstrap that calls FindNode is the next one
AtFindNodeCall == pc = "bootstrap" /\ bootstrapLeft = << >>

\* C11 (as the code has it): FindNode fails with "no contacts in routing
\* table" exactly when the routing table yields no seed at all; with one or
\* two seeds it starts the lookup with those.
C11_ErrorOnlyWithoutSeeds ==
    [][ AtFindNodeCall =>
          /\ (err' = "no contacts in routing table") <=> (TableContacts(routingTable) = {})
          /\ TableContacts(routingTable) # {} =>
                 /\ pc' = "lookup"
                 /\ sent' = workers'
                 /\ Cardinality(sent') = Min(Alpha, Cardinality(TableContacts(routingTable))) ]_vars

C11_Witness ==
    /\ pc = "lookup"
    /\ Cardinality(sent) = 1
    /\ workers = sent
    /\ queued = {}
    /\ err = "none"

\* C11 (as stated): FindNode fails with "no contacts in routing table"
\* whenever the routing table yields fewer than Alpha seeds.
C11_ErrorBelowAlphaSeeds ==
    [][ (AtFindNodeCall /\ Cardinality(TableContacts(routingTable)) < Alpha) =>
          err' = "no contacts in routing table" ]_vars

\* the result loop takes a failed RPC's nil off resultChan in this step
HandlesFailure ==
    /\ pc = "lookup"
    /\ resultChan # << >>
    /\ Head(resultChan).nil
    /\ resultChan' = Tail(resultChan)

\* C12: a failed FIND_NODE RPC is swallowed: a FindNode that had a seed
\* returns nil and no error; handling a failure changes neither the routing
\* table nor the candidate list and starts no RPC; and no RPC is started
\* for a peer that was sent one before in the lookup.
C12_FailureSwallowed ==
    /\ [](sent # {} => err \in {"none", "nil"})
    /\ []((pc = "idle" /\ sent # {}) => err = "nil")
    /\ [][ HandlesFailure =>
             /\ routingTable' = routingTable
             /\ closestSoFar' = closestSoFar
             /\ queued' = queued
             /\ contacted' = contacted
             /\ workers' = workers
             /\ sent' = sent ]_vars
    /\ [][ pc = "lookup" =>
             \A c \in workers' \ workers :
                 c.Address \notin { d.Address : d \in sent } ]_vars

\* FindNode has returned nil with a candidate left over, which happens only
\* after the failure of the last running RPC
C12_Witness ==
    /\ pc = "idle"
    /\ err = "nil"
    /\ closestSoFar # << >>
    /\ Cardinality(sent) >= 2

\* the result loop takes the response of a successful RPC off resultChan in
\* this step
HandlesSuccess ==
    /\ pc = "lookup"
    /\ resultChan # << >>
    /\ ~Head(resultChan).nil
    /\ resultChan' = Tail(resultChan)

\* the contacts of the response at the head of resultChan whose address has
\* not been seen in this lookup, and the positions they have in the response
FreshAt == { i \in 1..Len(Head(resultChan).contacts) :
                 Head(resultChan).contacts[i].Address \notin contacted }
Fresh == { Head(resultChan).contacts[i] : i \in FreshAt }

\* C13 (as the code has it): when a response is handled, each of its
\* contacts whose address has not been seen in the lookup is stored in the
\* table (its bucket has room here), replacing the entry of the same NodeID
\* if there is one, and the last such contact of a bucket is at the bucket's
\* most-recently-seen end; every other entry of the table is kept, and a
\* response made only of seen addresses leaves the table unchanged.
C13_UnseenContactsMerged ==
    [][ HandlesSuccess =>
          LET q == Head(resultChan).contacts
          IN  /\ \A i \in FreshAt :
                    LET kb == BucketOf(routingTable', q[i].ID)
                    IN  /\ q[i] \in Range(kb)
                        /\ (\A j \in FreshAt : j > i =>
                                getBucketIndex(routingTable, q[j].ID) #
                                getBucketIndex(routingTable, q[i].ID))
                              => kb[Len(kb)] = q[i]
              /\ TableIDs(routingTable') = TableIDs(routingTable) \cup { c.ID : c \in Fresh }
              /\ Cardinality(TableContacts(routingTable')) = Cardinality(TableIDs(routingTable'))
              /\ \A c \in TableContacts(routingTable) :
                    c.ID \notin { d.ID : d \in Fresh } => c \in TableContacts(routingTable')
              /\ Fresh = {} => routingTable' = routingTable ]_vars

\* two contacts learnt from responses are in the table, next to contacts
\* learnt from bootstrap pings
C13_Witness ==
    /\ pc = "lookup"
    /\ {PeerB, PeerC} \subseteq queued
    /\ {PeerB, PeerC} \subseteq TableContacts(routingTable)
    /\ Cardinality(TableContacts(routingTable)) >= 4

\* C13 (as stated): when a response is handled, every contact of the
\* response is stored in the table (its bucket has room here).
C13_EveryContactMerged ==
    [][ HandlesSuccess =>
          \A i \in 1..Len(Head(resultChan).contacts) :
              Head(resultChan).contacts[i] \in TableContacts(routingTable') ]_vars

\* C14: node A bootstraps from B and B's FIND_NODE response names C: once
\* the bootstrap (ping of B, then FindNode on A's own ID) has completed, A's
\* routing table holds both B and C.
C14_BootstrapLearnsBAndC ==
    (/\ pc = "idle"
     /\ err = "nil"
     /\ \E c \in sent : c.Address = "b"
     /\ PeerC \in queued)
        => {PeerB.ID, PeerC.ID} \subseteq TableIDs(routingTable)

\* the end of the three-node run: B was the only seed, C was learnt from B
\* and queried, and the table holds exactly B and C
C14_Witness ==
    /\ pc = "idle"
    /\ err = "nil"
    /\ sent = {MkContact(PeerB.ID, "b", 1), PeerC}
    /\ queued = {PeerC}
    /\ closestSoFar = << >>
    /\ TableContacts(routingTable) = {MkContact(PeerB.ID, "b", 1), PeerC}

\* C17: no bucket of the routing table holds a contact whose NodeID is the
\* local ID, whatever contacts the peers return.
C17_SelfNeverInserted ==
    \A c \in TableContacts(routingTable) : c.ID # routingTable.localID

(***************************************************************************)
(* Properties of the service registry.                                     *)
(***************************************************************************)
\* C19: RegisterService returns nil and makes its info the entry of its
\* service ID, leaving every other entry as it was; nothing else changes the
\* registry, which starts empty; FindService returns the entry of the ID,
\* and the not-found error exactly for an ID without entry.  So FindService
\* returns the info of the latest RegisterService of the ID.
C19_LastWriteWins ==
    /\ [](ret.op = "RegisterService" =>
             /\ ret.err = "nil"
             /\ ret.serviceID \in DOMAIN services
             /\ services[ret.serviceID] = ret.info)
    /\ [](ret.op = "FindService" =>
             IF ret.serviceID \in DOMAIN services
             THEN ret.found /\ ret.err = "nil" /\ ret.info = services[ret.serviceID]
             ELSE ~ret.found /\ ret.err = "service not found")
    /\ [][ services' # services =>
             /\ ret'.op = "RegisterService"
             /\ DOMAIN services' = DOMAIN services \cup {ret'.serviceID}
             /\ \A id \in DOMAIN services :
                   id # ret'.serviceID => services'[id] = services[id] ]_vars

\* a registered service ID was registered again with another info, while two
\* more IDs are registered
C19_Witness ==
    /\ ret.op = "RegisterService"
    /\ ret.replaced
    /\ services[ret.serviceID] = ret.info
    /\ Cardinality(DOMAIN services) = 3
    /\ \E id \in DOMAIN services : services[id] # ret.info

\* C22: Start (which returns what bootstrap returns) does not return an
\* error, however many of the bootstrap peers failed to answer the ping.
C22_StartIgnoresUnreachablePeers ==
    pc = "idle" => err = "nil"

(***************************************************************************)
(* Properties of the background loops and Stop.                            *)
(***************************************************************************)
AllLoopsDone == \A l \in Loops : loop[l] = "done"

\* C23: once Stop has closed dht.shutdown, each of the three background
\* loops terminates (a lookup in progress returns first); and when Stop has
\* returned nil, all three have terminated.
C23_LoopsTerminate ==
    /\ shutdown ~> AllLoopsDone
    /\ [](stop = "returned nil" => AllLoopsDone)

\* Stop has returned nil after a refresh lookup that added to the table
C23_Witness ==
    /\ stop = "returned nil"
    /\ AllLoopsDone
    /\ Cardinality(TableContacts(routingTable)) >= 2


(***************************************************************************)
(* Properties of concurrent callers.                                       *)
(***************************************************************************)
NewA1 == MkContact(IDAt(Mask(129, 0)), "a1", 0)
NewA2 == MkContact(IDAt(Mask(130, 0)), "a2", 0)

NoDuplicateIDs(rt, i) ==
    \A j, k \in 1..Len(rt.buckets[i]) : j # k => rt.buckets[i][j].ID # rt.buckets[i][k].ID

\* C24: with AddContact and Size running in concurrent goroutines, no bucket
\* ever holds more than K contacts or two contacts with the same NodeID, and
\* of two distinct new NodeIDs inserted into a bucket holding K - 1 contacts
\* exactly one is stored: never both, and one as soon as either call returned
C24_ConcurrentCallersSafe ==
    /\ \A i \in {0, 1, 159} : Len(routingTable.buckets[i]) <= K
    /\ NoDuplicateIDs(routingTable, 0)
    /\ Cardinality({NewA1.ID, NewA2.ID} \cap TableIDs(routingTable)) <= 1
    /\ \A p \in Writers :
          (proc[p].pc = "idle" /\ proc[p].contact \in {NewA1, NewA2})
          => Cardinality({NewA1.ID, NewA2.ID} \cap TableIDs(routingTable)) = 1

\* both writers were in AddContact with the two new IDs at once: one has
\* stored its contact and is unlocking, the other still waits for the table
C24_Witness ==
    /\ proc["w1"].pc = "rt.mutex.Unlock" /\ proc["w1"].contact = NewA1 /\ proc["w1"].ok
    /\ proc["w2"].pc = "rt.mutex.Lock" /\ proc["w2"].contact = NewA2
    /\ Len(routingTable.buckets[0]) = K


\* a pass of the result loop that ended by starting a follow-up query
Dispatches ==
    /\ pc = "lookup"
    /\ resultChan # << >>
    /\ resultChan' = Tail(resultChan)
    /\ workers' # workers

\* C25: a follow-up query goes to one pending candidate, no pending candidate
\* left behind is closer to the target than it, and it is pending no more
\* while every other pending candidate still is
C25_DispatchesClosestPending ==
    [][Dispatches =>
          \E next \in workers' \ workers :
             /\ workers' = workers \cup {next}
             /\ next \notin Range(closestSoFar')
             /\ Range(closestSoFar) \subseteq Range(closestSoFar') \cup {next}
             /\ \A c \in Range(closestSoFar') :
                   ~lessThan(Distance(c.ID, targetID), Distance(next.ID, targetID))]_vars

\* c was dispatched while the farther b stays pending
C25_Witness ==
    /\ pc = "lookup"
    /\ PeerC \in workers
    /\ closestSoFar = <<PeerB>>
    /\ lessThan(Distance(PeerC.ID, targetID), Distance(PeerB.ID, targetID))


\* C26: within one FindNode execution no two RPCs go to the same address
C26_OneRPCPerAddress ==
    \A c1, c2 \in sent : c1.Address = c2.Address => c1 = c2


\* C27: a lookup that started returns; until then every started query is
\* either running or has its one result waiting in resultChan, and the
\* channel has room whenever a worker is still to send
C27_LookupTerminates ==
    /\ [](pc = "lookup" => Cardinality(workers) + Len(resultChan) = activeQueries)
    /\ [](pc = "lookup" /\ workers # {} => Len(resultChan) < Alpha)
    /\ (pc = "lookup" ~> pc = "idle")

\* Alpha - 1 results wait in the channel and the last worker is yet to send
C27_Witness ==
    /\ pc = "lookup"
    /\ Len(resultChan) = Alpha - 1
    /\ Cardinality(workers) = 1


\* the places of the table that hold a contact
Slots(rt) ==
    UNION { { <<i, j>> : j \in 1..Len(rt.buckets[i]) } : i \in 0..(NumBuckets - 1) }

BucketIDSet(rt, i) == { rt.buckets[i][j].ID : j \in 1..Len(rt.buckets[i]) }

C29_ReturnsMinCountSize ==
    ret.op = "GetClosestContacts"
    => Len(ret.result) = Min(ret.count, RoutingTableSize(routingTable))

\* a table of two contacts, in the buckets at either end of the index range,
\* asked for K: both are returned
C29_Witness ==
    /\ ret.op = "GetClosestContacts"
    /\ ret.count = K
    /\ Len(routingTable.buckets[0]) = 1
    /\ Len(routingTable.buckets[NumBuckets - 1]) = 1
    /\ RoutingTableSize(routingTable) = 2
    /\ Len(ret.result) = 2


(***************************************************************************)
(* Properties of the request handlers.                                     *)
(***************************************************************************)
\* C30: serving a Ping, FindNode, FindValue or Store request changes neither
\* the routing table nor the service registry
C30_HandlersChangeNothing ==
    [][ret' # ret /\ ret'.op \in Handlers
       => routingTable' = routingTable /\ services' = services]_vars

\* a ping from d was served by a node that knows b and c and has a service
\* registered: d is still not in its table
C30_Witness ==
    /\ ret.op = "handlePing"
    /\ ret.caller = PeerD
    /\ TableIDs(routingTable) = {PeerB.ID, PeerC.ID}
    /\ DOMAIN services # {}

====
